---- MODULE Spec2Model ----
(***************************************************************************)
(* A model of sweepai/core/lexical_search.py: the code tokenizer, the      *)
(* n-gram expander, CustomIndex (inverted index + BM25), the module-level  *)
(* search_index and the two corpus builders.                               *)
(*                                                                         *)
(* Text is a sequence of one-character strings.  A Python float is a       *)
(* fixed-point integer in units of 1/Scale (ScoreOf, Ln) or an exact       *)
(* fraction <<numerator, denominator>> (avg_doc_length, normalized         *)
(* scores).                                                                *)
(***************************************************************************)
EXTENDS Integers, Sequences, FiniteSets, TLC

----------------------------------------------------------------------------
(* Characters *)

UpperSeq == <<"A","B","C","D","E","F","G","H","I","J","K","L","M",
              "N","O","P","Q","R","S","T","U","V","W","X","Y","Z">>
LowerSeq == <<"a","b","c","d","e","f","g","h","i","j","k","l","m",
              "n","o","p","q","r","s","t","u","v","w","x","y","z">>
UpperChars == {UpperSeq[i] : i \in DOMAIN UpperSeq}
LowerChars == {LowerSeq[i] : i \in DOMAIN LowerSeq}
DigitChars == {"0","1","2","3","4","5","6","7","8","9"}

\* \w of the regular expressions (ASCII part)
IsWordChar(c) == c \in UpperChars \cup LowerChars \cup DigitChars \cup {"_"}

\* str.lower() on one character
LowerChar(c) ==
    IF c \in UpperChars
    THEN LowerSeq[CHOOSE i \in DOMAIN UpperSeq : UpperSeq[i] = c]
    ELSE c

\* str.lower() leaving every character as it is
NotLowered(s) == s

\* str.lower()
Lower(s) == [i \in DOMAIN s |-> LowerChar(s[i])]

\* F(e), with e evaluated once and named inside F
Bind(e, F(_)) == CHOOSE r \in {F(v) : v \in {e}} : TRUE

\* s[a:b] of Python, a and b 0-based, a <= b <= len(s)
Slice(s, a, b) == IF b <= a THEN <<>> ELSE SubSeq(s, a + 1, b)

----------------------------------------------------------------------------
(* tokenize_call *)

\* Token(text=..., pos=..., startchar=..., end_pos=..., endchar=...)
Token(text, pos, startchar, end_pos, endchar) ==
    [text |-> text, pos |-> pos, startchar |-> startchar,
     end_pos |-> end_pos, endchar |-> endchar]

\* check_valid_token accepting every non-empty part
CheckNonEmpty(token) == Len(token) > 0

\* check_valid_token: token and len(token) > 1
check_valid_token(token) == Len(token) > 1

\* length of the maximal run of characters of class S in s from 0-based i
RECURSIVE RunLen(_, _, _)
RunLen(s, i, S) ==
    IF i < Len(s) /\ s[i + 1] \in S THEN 1 + RunLen(s, i + 1, S) ELSE 0

\* re.finditer(r"\b\w+\b", code): the maximal word runs, as <<start, text>>
RECURSIVE WordMatches(_, _)
WordMatches(code, i) ==
    IF i >= Len(code) THEN <<>>
    ELSE IF IsWordChar(code[i + 1])
         THEN LET n == RunLen(code, i, UpperChars \cup LowerChars
                                        \cup DigitChars \cup {"_"})
              IN  <<[start |-> i, text |-> Slice(code, i, i + n)]>>
                  \o WordMatches(code, i + n)
         ELSE WordMatches(code, i + 1)

\* text.split("_"): the parts between underscores, empty ones included
RECURSIVE SplitUnderscore(_, _, _)
SplitUnderscore(text, i, from) ==
    IF i >= Len(text) THEN <<Slice(text, from, Len(text))>>
    ELSE IF text[i + 1] = "_"
         THEN <<Slice(text, from, i)>> \o SplitUnderscore(text, i + 1, i + 1)
         ELSE SplitUnderscore(text, i + 1, from)

\* the length variable_pattern matches at 0-based i of text, 0 for no match:
\* [A-Z][a-z]+ | [a-z]+ | [A-Z]+(?=[A-Z]|$), alternatives tried in this order
VariableMatchLen(text, i) ==
    LET c  == text[i + 1]
        lo == RunLen(text, i + 1, LowerChars)
        up == RunLen(text, i, UpperChars)
    IN  IF c \in UpperChars /\ lo >= 1 THEN 1 + lo
        ELSE IF c \in LowerChars THEN RunLen(text, i, LowerChars)
        ELSE IF c \in UpperChars
             THEN IF i + up = Len(text) THEN up
                  ELSE IF up >= 2 THEN up - 1
                  ELSE 0
        ELSE 0

\* variable_pattern.findall(text)
RECURSIVE VariableFindAll(_, _)
VariableFindAll(text, i) ==
    IF i >= Len(text) THEN <<>>
    ELSE LET n == VariableMatchLen(text, i)
         IN  IF n = 0 THEN VariableFindAll(text, i + 1)
             ELSE <<Slice(text, i, i + n)>> \o VariableFindAll(text, i + n)

\* the loop over the parts of one word run; sep is 1 in the snake-case branch
\* (offset += len(part) + 1) and 0 in the camel-case branch
RECURSIVE EmitParts(_, _, _, _, _, _)
EmitParts(parts, k, span_start, offset, pos, sep) ==
    IF k > Len(parts) THEN <<>>
    ELSE LET part == parts[k]
         IN  IF check_valid_token(part)
             THEN <<Token(Lower(part), pos, span_start + offset, pos + 1,
                          span_start + Len(part) + offset)>>
                  \o EmitParts(parts, k + 1, span_start,
                               offset + Len(part) + sep, pos + 1, sep)
             ELSE EmitParts(parts, k + 1, span_start,
                            offset + Len(part) + sep, pos, sep)

\* the tokens of one match m, numbered from pos
TokensOfMatch(m, pos) ==
    LET text  == m.text
        parts == VariableFindAll(text, 0)
    IN  IF \E i \in DOMAIN text : text[i] = "_"
        THEN EmitParts(SplitUnderscore(text, 0, 0), 1, m.start, 0, pos, 1)
        ELSE IF parts # <<>>
        THEN EmitParts(parts, 1, m.start, 0, pos, 0)
        ELSE IF check_valid_token(text)
        THEN <<Token(Lower(text), pos, m.start, pos + 1, m.start + Len(text))>>
        ELSE <<>>

RECURSIVE TokenizeMatches(_, _, _)
TokenizeMatches(matches, k, pos) ==
    IF k > Len(matches) THEN <<>>
    ELSE LET toks == TokensOfMatch(matches[k], pos)
         IN  toks \o TokenizeMatches(matches, k + 1, pos + Len(toks))

tokenize_call(code) == TokenizeMatches(WordMatches(code, 0), 1, 0)

----------------------------------------------------------------------------
(* N-gram expander and CodeTokenizer *)

Underscore == <<"_">>

\* prev_token = None
None == <<>>

\* prev_token = token; a variable holding a Token is <<token>>
Some(token) == <<token>>

\* Bigram positioned at its second token
BigramAtSecond(prev_token, token) ==
    Token(prev_token.text \o Underscore \o token.text,
          token.pos, token.startchar, token.end_pos, token.endchar)

\* the joined_token of construct_bigrams
Bigram(prev_token, token) ==
    Token(prev_token.text \o Underscore \o token.text,
          prev_token.pos, prev_token.startchar, token.end_pos, token.endchar)

\* the joined_token of construct_trigrams
Trigram(prev_prev_token, prev_token, token) ==
    Token(prev_prev_token.text \o Underscore \o prev_token.text
              \o Underscore \o token.text,
          prev_prev_token.pos, prev_prev_token.startchar,
          token.end_pos, token.endchar)

\* the loop of construct_bigrams from the k-th token on
RECURSIVE BigramLoop(_, _, _)
BigramLoop(tokens, k, prev_token) ==
    IF k > Len(tokens) THEN <<>>
    ELSE (IF prev_token # None
          THEN <<Bigram(prev_token[1], tokens[k])>>
          ELSE <<>>)
         \o BigramLoop(tokens, k + 1, Some(tokens[k]))

construct_bigrams(tokens) == BigramLoop(tokens, 1, None)

\* the loop of construct_trigrams from the k-th token on
RECURSIVE TrigramLoop(_, _, _, _)
TrigramLoop(tokens, k, prev_prev_token, prev_token) ==
    IF k > Len(tokens) THEN <<>>
    ELSE (IF prev_token # None /\ prev_prev_token # None
          THEN <<Trigram(prev_prev_token[1], prev_token[1], tokens[k])>>
          ELSE <<>>)
         \o TrigramLoop(tokens, k + 1, prev_token, Some(tokens[k]))

construct_trigrams(tokens) == TrigramLoop(tokens, 1, None, None)

\* CodeTokenizer.__call__: unigrams, then bigrams, then trigrams
CodeTokenizer(value) ==
    Bind(tokenize_call(value),
         LAMBDA tokens :
            tokens \o construct_bigrams(tokens) \o construct_trigrams(tokens))

\* compute_document_tokens(content), and the query tokens of search_index
compute_document_tokens(content) ==
    Bind(CodeTokenizer(content),
         LAMBDA toks : [k \in DOMAIN toks |-> toks[k].text])

----------------------------------------------------------------------------
(* Numbers: exact fractions <<n, d>> with d > 0, and fixed-point logarithms *)

\* precision of the fixed-point floats: one unit is 1/Scale
Scale == 10000

Abs(x) == IF x < 0 THEN -x ELSE x

RECURSIVE GCD(_, _)
GCD(a, b) == IF b = 0 THEN a ELSE GCD(b, a % b)

\* the fraction n/d (d # 0) in lowest terms with a positive denominator
Frac(n, d) ==
    LET g == GCD(Abs(n), Abs(d))
        s == IF d < 0 THEN -1 ELSE 1
    IN  <<(s * n) \div g, (s * d) \div g>>

FInt(n) == <<n, 1>>
FAdd(x, y) == Frac(x[1] * y[2] + y[1] * x[2], x[2] * y[2])
FSub(x, y) == Frac(x[1] * y[2] - y[1] * x[2], x[2] * y[2])
FMul(x, y) == Frac(x[1] * y[1], x[2] * y[2])
\* x / y for y # 0
FDiv(x, y) == Frac(x[1] * y[2], x[2] * y[1])
FLeq(x, y) == x[1] * y[2] <= y[1] * x[2]
FLess(x, y) == x[1] * y[2] < y[1] * x[2]

\* sum over odd k of z^k / k, z = zs / Scale in [0, 1), p the current power
RECURSIVE AtanhSeries(_, _, _)
AtanhSeries(p, zs, k) ==
    IF p = 0 THEN 0
    ELSE (p \div k) + AtanhSeries((((p * zs) \div Scale) * zs) \div Scale, zs, k + 2)

\* math.log(n / d) for n, d > 0, in units of 1/Scale:
\* ln x = 2 atanh((x - 1) / (x + 1))
Ln(n, d) ==
    IF n >= d
    THEN 2 * AtanhSeries(((n - d) * Scale) \div (n + d),
                         ((n - d) * Scale) \div (n + d), 1)
    ELSE -(2 * AtanhSeries(((d - n) * Scale) \div (n + d),
                           ((d - n) * Scale) \div (n + d), 1))

----------------------------------------------------------------------------
(* State *)

VARIABLES
    inverted_index,   \* CustomIndex.inverted_index: token text -> list of <<doc_id, freq>>
    doc_lengths,      \* CustomIndex.doc_lengths: doc_id -> number of tokens
    avg_doc_length,   \* CustomIndex.avg_doc_length, a fraction
    metadata,         \* CustomIndex.metadata: doc_id -> metadata
    calls,            \* the add_document calls made so far, as <<title, tokens>>
    last              \* the most recent call and what it returned or raised

index_vars == <<inverted_index, doc_lengths, avg_doc_length, metadata>>

\* the empty mapping {}
EmptyMap == [x \in {} |-> 0]

\* dict | {k: v}
Put(f, k, v) == [x \in DOMAIN f \cup {k} |-> IF x = k THEN v ELSE f[x]]

\* the default value of add_document's metadata parameter, and of metadata.get
DefaultMetadata == "{}"

----------------------------------------------------------------------------
(* CustomIndex *)

\* CustomIndex.__init__
CustomIndexInit ==
    /\ inverted_index = EmptyMap
    /\ doc_lengths = EmptyMap
    /\ avg_doc_length = <<0, 1>>
    /\ metadata = EmptyMap

\* sum(lengths.values())
RECURSIVE SumValues(_, _)
SumValues(lengths, keys) ==
    IF keys = {} THEN 0
    ELSE LET k == CHOOSE x \in keys : TRUE
         IN  lengths[k] + SumValues(lengths, keys \ {k})

\* AverageLength with // in place of /
AverageLengthFloorDiv(lengths) ==
    Frac(SumValues(lengths, DOMAIN lengths) \div Cardinality(DOMAIN lengths), 1)

\* sum(self.doc_lengths.values()) / len(self.doc_lengths)
AverageLength(lengths) ==
    Frac(SumValues(lengths, DOMAIN lengths), Cardinality(DOMAIN lengths))

\* Counter with set(tokens) in its place: every frequency is 1
CounterOfSet(tokens) == [t \in {tokens[k] : k \in DOMAIN tokens} |-> 1]

\* Counter(tokens)
Counter(tokens) ==
    [t \in {tokens[i] : i \in DOMAIN tokens} |->
        Cardinality({i \in DOMAIN tokens : tokens[i] = t})]

\* PostingList that stops at the first posting of the list
PostingListHead(token) ==
    IF token \in DOMAIN inverted_index
    THEN SubSeq(inverted_index[token], 1, 1)
    ELSE <<>>

\* self.inverted_index[token] of the defaultdict, and .get(token, [])
PostingList(token) ==
    IF token \in DOMAIN inverted_index THEN inverted_index[token] ELSE <<>>

\* the loop appending (doc_id, freq) to the posting list of each token
AppendPostings(doc_id, token_freq) ==
    [t \in DOMAIN inverted_index \cup DOMAIN token_freq |->
        IF t \in DOMAIN token_freq
        THEN Append(PostingList(t), <<doc_id, token_freq[t]>>)
        ELSE inverted_index[t]]

\* CustomIndex.index_document
index_document(doc_id, tokens) ==
    /\ doc_lengths' = Put(doc_lengths, doc_id, Len(tokens))
    /\ avg_doc_length' = AverageLength(doc_lengths')
    /\ inverted_index' = AppendPostings(doc_id, Counter(tokens))

\* CustomIndex.add_document
add_document(title, tokens, meta) ==
    /\ metadata' = Put(metadata, title, meta)
    /\ index_document(title, tokens)
    /\ calls' = Append(calls, <<title, tokens>>)

\* self.k1 = 1.2 and self.b = 0.75, as fractions
k1 == <<6, 5>>
b == <<3, 4>>

\* IdfArg without the + 1.0 (the idf of classic Okapi BM25)
IdfArgClassic(num_docs, df) == Frac(2 * (num_docs - df) + 1, 2 * df + 1)

\* the argument of the logarithm of idf:
\* ((num_docs - df) + 0.5) / (df + 0.5) + 1.0
IdfArg(num_docs, df) ==
    FAdd(Frac(2 * (num_docs - df) + 1, 2 * df + 1), FInt(1))

\* TfFactor of a term that is counted once however often it occurs
TfFactorBinary(term_freq, doc_length, avg) ==
    Frac((k1[1] + k1[2]) * b[2] * avg[1],
         k1[2] * b[2] * avg[1]
           + k1[1] * ((b[2] - b[1]) * avg[1] + b[1] * doc_length * avg[2]))

\* the term-frequency factor of bm25 for avg # 0, as a fraction:
\* ((k1 + 1) * term_freq)
\*     / (term_freq + k1 * (1 - b + b * (doc_length / avg)))
\* with every term brought over the denominator k1[2] * b[2] * avg[1]
TfFactor(term_freq, doc_length, avg) ==
    Frac((k1[1] + k1[2]) * term_freq * b[2] * avg[1],
         term_freq * k1[2] * b[2] * avg[1]
           + k1[1] * ((b[2] - b[1]) * avg[1] + b[1] * doc_length * avg[2]))

\* idf * tf in units of 1/Scale
ScoreOf(arg, tf) == (Ln(arg[1], arg[2]) * tf[1]) \div tf[2]

\* CustomIndex.bm25: [exc |-> "none", val |-> the score in units of 1/Scale],
\* or the exception the arithmetic raises
bm25(doc_id, term, term_freq) ==
    Bind(IdfArg(Cardinality(DOMAIN doc_lengths), Len(PostingList(term))),
         LAMBDA arg :
            IF arg[1] <= 0 THEN [exc |-> "ValueError", val |-> 0]
            ELSE IF avg_doc_length[1] = 0
            THEN [exc |-> "ZeroDivisionError", val |-> 0]
            ELSE [exc |-> "none",
                  val |-> ScoreOf(arg, TfFactor(term_freq,
                                                doc_lengths[doc_id],
                                                avg_doc_length))])

\* the (doc_id, token, term_freq) visited by the two nested loops, in order
RECURSIVE Hits(_, _)
Hits(query_tokens, k) ==
    IF k > Len(query_tokens) THEN <<>>
    ELSE LET pl == PostingList(query_tokens[k])
         IN  [j \in DOMAIN pl |-> <<pl[j][1], query_tokens[k], pl[j][2]>>]
             \o Hits(query_tokens, k + 1)

\* scores[doc_id] += v on the insertion-ordered dict scores, a list of pairs
AddScore(scores, doc_id, v) ==
    IF \E i \in DOMAIN scores : scores[i][1] = doc_id
    THEN [i \in DOMAIN scores |->
            IF scores[i][1] = doc_id THEN <<doc_id, scores[i][2] + v>>
            ELSE scores[i]]
    ELSE Append(scores, <<doc_id, v>>)

RECURSIVE Accumulate(_, _, _)
Accumulate(hits, k, scores) ==
    IF k > Len(hits) THEN [exc |-> "none", val |-> scores]
    ELSE Bind(bm25(hits[k][1], hits[k][2], hits[k][3]),
              LAMBDA r :
                 IF r.exc # "none" THEN [exc |-> r.exc, val |-> <<>>]
                 ELSE Accumulate(hits, k + 1,
                                 AddScore(scores, hits[k][1], r.val)))

\* SortedDesc with the sort left out
Unsorted(items) == items

\* sorted(items, key=lambda x: x[1], reverse=True): stable, descending
RECURSIVE SortedDesc(_)
SortedDesc(items) ==
    IF items = <<>> THEN <<>>
    ELSE Bind(SortedDesc(SubSeq(items, 1, Len(items) - 1)),
              LAMBDA rest :
                 LET x  == items[Len(items)]
                     \* x goes after every element that is not smaller
                     at == Cardinality({k \in DOMAIN rest :
                                           rest[k][2] >= x[2]})
                 IN  SubSeq(rest, 1, at) \o <<x>>
                        \o SubSeq(rest, at + 1, Len(rest)))

\* self.metadata.get(doc_id, {})
MetadataGet(doc_id) ==
    IF doc_id \in DOMAIN metadata THEN metadata[doc_id] ELSE DefaultMetadata

\* [(doc_id, score, self.metadata.get(doc_id, {})) for ... in sorted_scores]
WithMetadata(sorted_scores) ==
    [k \in DOMAIN sorted_scores |->
        <<sorted_scores[k][1], sorted_scores[k][2],
          MetadataGet(sorted_scores[k][1])>>]

\* a query that is no string: the regular expression raises TypeError on it
NotAString == <<"<None>">>

\* [token.text for token in self.tokenizer(query)]
query_tokens_of(query) == compute_document_tokens(query)

\* CustomIndex.search_index: [exc |-> "none", val |-> the list of
\* <<doc_id, score, metadata>>], or the exception raised
CustomIndex_search_index(query) ==
    IF query = NotAString THEN [exc |-> "TypeError", val |-> <<>>]
    ELSE Bind(Accumulate(Hits(query_tokens_of(query), 1), 1, <<>>),
              LAMBDA acc :
                 IF acc.exc # "none" THEN acc
                 ELSE [exc |-> "none", val |-> WithMetadata(SortedDesc(acc.val))])

----------------------------------------------------------------------------
(* Module-level search_index *)

\* the subclasses of Exception that occur; SystemExit and KeyboardInterrupt
\* derive from BaseException only
ExceptionClasses ==
    {"TypeError", "ValueError", "ZeroDivisionError", "FileNotFoundError",
     "RuntimeError"}
Signals == {"none", "SystemExit", "KeyboardInterrupt"}

\* the record of a call: what was raised inside the try block (raised), what
\* CustomIndex.search_index returned if it returned (raw_ok, raw), and how
\* the call ended: kind "return" with value, or kind "raise" with exc
CallRecord(op, query, index_none, raised, raw_ok, raw, kind, value, exc) ==
    [op |-> op, query |-> query, index_none |-> index_none, raised |-> raised,
     raw_ok |-> raw_ok, raw |-> raw, kind |-> kind, value |-> value,
     exc |-> exc]

NoCall == CallRecord("none", <<>>, FALSE, "none", FALSE, <<>>, "return",
                     EmptyMap, "none")

\* the loop "if doc_id not in res: res[doc_id] = score", as a list of pairs
RECURSIVE FirstSeen(_, _, _)
FirstSeen(results, k, res) ==
    IF k > Len(results) THEN res
    ELSE IF \E i \in DOMAIN res : res[i][1] = results[k][1]
         THEN FirstSeen(results, k + 1, res)
         ELSE FirstSeen(results, k + 1,
                        Append(res, <<results[k][1], results[k][2]>>))

MaxOf(S) == CHOOSE x \in S : \A y \in S : y <= x
MinOf(S) == CHOOSE x \in S : \A y \in S : x <= y

\* max_score and min_score of a non-empty res
MaxScore(res) == MaxOf({res[k][2] : k \in DOMAIN res})
MinScore(res) ==
    IF MinOf({res[k][2] : k \in DOMAIN res}) < MaxScore(res)
    THEN MinOf({res[k][2] : k \in DOMAIN res})
    ELSE 0

\* Normalized dividing by max_score alone
NormalizedByMax(v, min_score, max_score) == Frac(v - min_score, max_score)

\* (v - min_score) / (max_score - min_score), for max_score # min_score
Normalized(v, min_score, max_score) ==
    Frac(v - min_score, max_score - min_score)

\* {k: (v - min_score) / (max_score - min_score) for k, v in res.items()}
NormalizedMap(res, min_score, max_score) ==
    [d \in {res[k][1] : k \in DOMAIN res} |->
        Normalized(res[CHOOSE k \in DOMAIN res : res[k][1] = d][2],
                   min_score, max_score)]

\* the try block after index.search_index returned results:
\* [exc |-> "none", val |-> the mapping], or the exception raised
NormalizeResults(results) ==
    Bind(FirstSeen(results, 1, <<>>),
         LAMBDA res :
            IF res = <<>> THEN [exc |-> "none", val |-> EmptyMap]
            ELSE IF MaxScore(res) - MinScore(res) = 0
            THEN [exc |-> "ZeroDivisionError", val |-> EmptyMap]
            ELSE [exc |-> "none",
                  val |-> NormalizedMap(res, MinScore(res), MaxScore(res))])

\* HandleException as one clause "except BaseException: return {}"
HandleEverything(exc) == <<"return", "none">>

\* the except clauses: what the call does with exception exc of the try
\* block, <<"raise", exc>> or <<"return", "none">> for return {}
HandleException(exc) ==
    IF exc = "SystemExit" THEN <<"raise", "SystemExit">>
    ELSE IF exc \in ExceptionClasses THEN <<"return", "none">>
    ELSE <<"raise", exc>>

\* search_index(query, index); index_none says that index is None, and sig is
\* the signal delivered inside the try block (sys.exit() or Ctrl-C from a
\* handler), "none" for none
search_index(query, index_none, sig) ==
    IF index_none
    THEN CallRecord("search_index", query, TRUE, "none", FALSE, <<>>,
                    "return", EmptyMap, "none")
    ELSE IF sig # "none"
    THEN CallRecord("search_index", query, FALSE, sig, FALSE, <<>>,
                    HandleException(sig)[1], EmptyMap,
                    HandleException(sig)[2])
    ELSE Bind(CustomIndex_search_index(query),
              LAMBDA raw :
                 IF raw.exc # "none"
                 THEN CallRecord("search_index", query, FALSE, raw.exc,
                                 FALSE, <<>>, HandleException(raw.exc)[1],
                                 EmptyMap, HandleException(raw.exc)[2])
                 ELSE Bind(NormalizeResults(raw.val),
                           LAMBDA norm :
                              IF norm.exc # "none"
                              THEN CallRecord("search_index", query, FALSE,
                                              norm.exc, TRUE, raw.val,
                                              HandleException(norm.exc)[1],
                                              EmptyMap,
                                              HandleException(norm.exc)[2])
                              ELSE CallRecord("search_index", query, FALSE,
                                              "none", TRUE, raw.val,
                                              "return", norm.val, "none")))

----------------------------------------------------------------------------
(* The index driven directly: add_document and search_index calls *)

\* the most add_document calls made on one index
MaxCalls == 3

Titles == {<<"A">>, <<"B">>, <<"C">>}

\* both callers of add_document leave metadata to its default
Metas == {DefaultMetadata}

\* document contents: "get_user_id", "user user", "x"
Contents ==
    { <<"g","e","t","_","u","s","e","r","_","i","d">>,
      <<"u","s","e","r"," ","u","s","e","r">>,
      <<"x">> }

\* queries: "", "user", "getUserId", and one that is no string
Queries ==
    { <<>>,
      <<"u","s","e","r">>,
      <<"g","e","t","U","s","e","r","I","d">>,
      NotAString }

\* a call of search_index that has not returned yet
Pending(query, index_none, sig) ==
    CallRecord("search_index", query, index_none, sig, FALSE, <<>>,
               "pending", EmptyMap, "none")

----------------------------------------------------------------------------
(* The corpus builders *)

VARIABLES
    builder,          \* "direct", or the builder running: "snippets" or "docs"
    pc,               \* where the builder is: "start", "tokenize", "index",
                      \* "docs", "done"
    all_docs,         \* the list of Document (of Documentation for "docs")
    len_repo_cache_dir,
    ticket_progress,  \* the progress sink, or absent
    all_tokens,       \* the token lists of the first pass
    i,                \* how many documents the running loop has completed
    ret,              \* what the builder returned or raised
    fault             \* the first exception raised inside the builder

builder_vars ==
    <<builder, pc, all_docs, len_repo_cache_dir, ticket_progress, all_tokens,
      i, ret, fault>>

VARIABLES
    source_text,      \* the text given to the tokenizer called directly
    yielded,          \* the tokens that call returned
    tok_pc,           \* "idle", "start", or the function that has returned
    corpus,           \* the documents loaded twice, a set of <<title, content>>
    first_load        \* what the first load left: the index and a search

tokenizer_vars == <<source_text, yielded, tok_pc>>
reload_vars == <<corpus, first_load>>

vars == <<inverted_index, doc_lengths, avg_doc_length, metadata, calls, last,
          builder, pc, all_docs, len_repo_cache_dir, ticket_progress,
          all_tokens, i, ret, fault, source_text, yielded, tok_pc, corpus,
          first_load>>

\* no direct tokenizer call
TokenizerIdle == source_text = <<>> /\ yielded = <<>> /\ tok_pc = "idle"

\* nothing loaded twice
NoLoad ==
    [done |-> FALSE, order |-> <<>>, doc_lengths |-> <<>>,
     avg_doc_length |-> <<0, 1>>, postings |-> <<>>, query |-> <<>>,
     kind |-> "return", value |-> <<>>]
ReloadIdle == corpus = {} /\ first_load = NoLoad

\* the most snippets (or docs) given to a builder
MaxSnippets == 2

\* the cadence of the progress reports of the first pass
ReportEvery == 200

\* snippets: file_path, the content get_snippet returns, start, end:
\* "r/a" lines 0-5 "get_user_id", "r/a" lines 5-12 "user user", "r/b" lines
\* 0-5 "x"
Snippets ==
    { [file_path |-> <<"r","/","a">>, start |-> 0, end |-> 5,
       content |-> <<"g","e","t","_","u","s","e","r","_","i","d">>],
      [file_path |-> <<"r","/","a">>, start |-> 5, end |-> 12,
       content |-> <<"u","s","e","r"," ","u","s","e","r">>],
      [file_path |-> <<"r","/","b">>, start |-> 0, end |-> 5,
       content |-> <<"x">>] }

RECURSIVE SeqsUpTo(_, _)
SeqsUpTo(S, n) ==
    IF n = 0 THEN {<<>>}
    ELSE LET shorter == SeqsUpTo(S, n - 1)
         IN  shorter \cup {Append(q, x) : q \in shorter, x \in S}

SnippetLists == SeqsUpTo(Snippets, MaxSnippets)

\* what ticket_progress.save() and compute_document_tokens may raise
SaveFaults == {"none", "RuntimeError", "FileNotFoundError"}
TokenFaults == {"none", "FileNotFoundError"}

\* str(n) for n >= 0
RECURSIVE Str(_)
Str(n) ==
    LET digit == <<"0","1","2","3","4","5","6","7","8","9">>[(n % 10) + 1]
    IN  IF n < 10 THEN <<digit>> ELSE Str(n \div 10) \o <<digit>>

\* snippets_to_docs
snippets_to_docs(snippets, len_repo) ==
    [k \in DOMAIN snippets |->
        [title   |-> Slice(snippets[k].file_path, len_repo,
                           Len(snippets[k].file_path)),
         content |-> snippets[k].content,
         start   |-> snippets[k].start,
         end     |-> snippets[k].end]]

\* [Documentation(url, content) for url, content in docs]
docs_to_documentation(docs) ==
    [k \in DOMAIN docs |-> [url |-> docs[k][1], content |-> docs[k][2]]]

\* f"{doc.title}:{doc.start}-{doc.end}"
DocTitle(doc) == doc.title \o <<":">> \o Str(doc.start) \o <<"-">> \o Str(doc.end)

NoProgress == [present |-> FALSE, indexing_total |-> 0,
               indexing_progress |-> 0, saves |-> 0]

Running == [kind |-> "running", exc |-> "none"]
Returned(what) == [kind |-> what, exc |-> "none"]
Raised(exc) == [kind |-> "raise", exc |-> exc]
NoFault == [where |-> "none", at |-> 0, exc |-> "none"]
Fault(where, at, exc) == [where |-> where, at |-> at, exc |-> exc]

\* EmptyResult returning a new, empty index
EmptyResultIndex == Returned("index")

\* "return None" of both builders for an empty list
EmptyResult == Returned("None")

\* AfterTokenize leaving the first loop after any document
AfterTokenizeEarly(n) == "index"

\* where prepare_index_from_snippets goes after tokenizing n documents: the
\* first loop again, or the second loop when the first is exhausted
AfterTokenize(n) == IF n = Len(all_docs) THEN "index" ELSE "tokenize"

\* the except clause of both builders: FileNotFoundError is logged and the
\* index is returned, anything else propagates
BuilderHandle(exc) ==
    IF exc = "FileNotFoundError" THEN Returned("index") ELSE Raised(exc)

\* a builder is called with its arguments
BuildInit ==
    /\ CustomIndexInit
    /\ TokenizerIdle
    /\ ReloadIdle
    /\ TokenizerIdle
    /\ ReloadIdle
    /\ calls = <<>>
    /\ last = NoCall
    /\ pc = "start"
    /\ all_tokens = <<>>
    /\ i = 0
    /\ ret = Running
    /\ fault = NoFault
    /\ \E snippets \in SnippetLists :
          \/ /\ builder = "snippets"
             /\ len_repo_cache_dir \in {0, 2}
             /\ all_docs = snippets_to_docs(snippets, len_repo_cache_dir)
             /\ \E present \in BOOLEAN :
                   ticket_progress = [NoProgress EXCEPT !.present = present]
          \/ /\ builder = "docs"
             /\ len_repo_cache_dir = 0
             /\ all_docs = docs_to_documentation(
                    [k \in DOMAIN snippets |->
                        <<snippets[k].file_path, snippets[k].content>>])
             /\ ticket_progress = NoProgress

\* prepare_index_from_snippets, lines 241-248: the empty check, the new
\* index and the report of the total
SnippetsStart ==
    /\ UNCHANGED <<tokenizer_vars, reload_vars>>
    /\ builder = "snippets" /\ pc = "start"
    /\ UNCHANGED <<index_vars, calls, last, builder, all_docs,
                   len_repo_cache_dir, all_tokens, i>>
    /\ IF Len(all_docs) = 0
       THEN /\ pc' = "done" /\ ret' = EmptyResult
            /\ UNCHANGED <<ticket_progress, fault>>
       ELSE IF ~ticket_progress.present
       THEN /\ pc' = "tokenize"
            /\ UNCHANGED <<ticket_progress, ret, fault>>
       ELSE \E exc \in SaveFaults :
               IF exc = "none"
               THEN /\ ticket_progress' =
                          [ticket_progress EXCEPT
                              !.indexing_total = Len(all_docs),
                              !.saves = @ + 1]
                    /\ pc' = "tokenize"
                    /\ UNCHANGED <<ret, fault>>
               ELSE /\ ticket_progress' =
                          [ticket_progress EXCEPT
                              !.indexing_total = Len(all_docs)]
                    /\ pc' = "done"
                    /\ ret' = Raised(exc)
                    /\ fault' = Fault("save_total", 0, exc)

\* one iteration of the first loop, lines 250-255, the except clause
\* included
SnippetsTokenize ==
    /\ UNCHANGED <<tokenizer_vars, reload_vars>>
    /\ builder = "snippets" /\ pc = "tokenize" /\ i < Len(all_docs)
    /\ UNCHANGED <<index_vars, calls, last, builder, all_docs,
                   len_repo_cache_dir>>
    /\ \E tok_exc \in TokenFaults, save_exc \in SaveFaults :
          IF tok_exc # "none"
          THEN /\ pc' = "done"
               /\ ret' = BuilderHandle(tok_exc)
               /\ fault' = Fault("tokenize", i, tok_exc)
               /\ UNCHANGED <<all_tokens, i, ticket_progress>>
          ELSE /\ all_tokens' =
                     Append(all_tokens,
                            compute_document_tokens(all_docs[i + 1].content))
               /\ IF ticket_progress.present /\ i % ReportEvery = 0
                  THEN IF save_exc = "none"
                       THEN /\ ticket_progress' =
                                  [ticket_progress EXCEPT
                                      !.indexing_progress = i, !.saves = @ + 1]
                            /\ i' = i + 1
                            /\ pc' = AfterTokenize(i + 1)
                            /\ UNCHANGED <<ret, fault>>
                       ELSE /\ ticket_progress' =
                                  [ticket_progress EXCEPT
                                      !.indexing_progress = i]
                            /\ pc' = "done"
                            /\ ret' = BuilderHandle(save_exc)
                            /\ fault' = Fault("save_progress", i, save_exc)
                            /\ UNCHANGED i
                  ELSE /\ save_exc = "none"
                       /\ i' = i + 1
                       /\ pc' = AfterTokenize(i + 1)
                       /\ UNCHANGED <<ticket_progress, ret, fault>>

\* one iteration of the second loop, lines 256-259, and the return after
\* the last one; the loop is at the document after those already added
SnippetsIndex ==
    /\ UNCHANGED <<tokenizer_vars, reload_vars>>
    /\ builder = "snippets" /\ pc = "index"
    /\ LET k == Len(calls) + 1
       IN  /\ k <= Len(all_docs) /\ k <= Len(all_tokens)
           /\ add_document(DocTitle(all_docs[k]), all_tokens[k],
                           DefaultMetadata)
           /\ IF k = Len(all_docs)
              THEN pc' = "done" /\ ret' = Returned("index")
              ELSE pc' = "index" /\ UNCHANGED ret
    /\ UNCHANGED <<last, builder, all_docs, len_repo_cache_dir,
                   ticket_progress, all_tokens, i, fault>>

\* prepare_index_from_docs, lines 277-281: the empty check and the new index
DocsStart ==
    /\ UNCHANGED <<tokenizer_vars, reload_vars>>
    /\ builder = "docs" /\ pc = "start"
    /\ IF Len(all_docs) = 0
       THEN pc' = "done" /\ ret' = EmptyResult
       ELSE pc' = "docs" /\ UNCHANGED ret
    /\ UNCHANGED <<index_vars, calls, last, builder, all_docs,
                   len_repo_cache_dir, ticket_progress, all_tokens, i, fault>>

\* one iteration of the loop of prepare_index_from_docs, lines 283-288, and
\* the return after the last one
DocsAdd ==
    /\ UNCHANGED <<tokenizer_vars, reload_vars>>
    /\ builder = "docs" /\ pc = "docs" /\ i < Len(all_docs)
    /\ UNCHANGED <<last, builder, all_docs, len_repo_cache_dir,
                   ticket_progress, all_tokens>>
    /\ \E tok_exc \in TokenFaults :
          IF tok_exc # "none"
          THEN /\ pc' = "done"
               /\ ret' = BuilderHandle(tok_exc)
               /\ fault' = Fault("tokenize", i, tok_exc)
               /\ UNCHANGED <<index_vars, calls, i>>
          ELSE /\ add_document(all_docs[i + 1].url,
                               compute_document_tokens(all_docs[i + 1].content),
                               DefaultMetadata)
               /\ i' = i + 1
               /\ IF i + 1 = Len(all_docs)
                  THEN pc' = "done" /\ ret' = Returned("index")
                  ELSE pc' = "docs" /\ UNCHANGED ret
               /\ UNCHANGED fault

----------------------------------------------------------------------------
(* The tokenizer called directly *)

\* the most pieces of one text
MaxPieces == 4

\* the pieces texts are made of: "ab", "Cd", "E", "1", "_", " "
Pieces ==
    { <<"a","b">>, <<"C","d">>, <<"E">>, <<"1">>, <<"_">>, <<" ">> }

\* "".join(pieces)
RECURSIVE Join(_)
Join(pieces) ==
    IF pieces = <<>> THEN <<>> ELSE Head(pieces) \o Join(Tail(pieces))

\* "myVariableName", "MY_CONST_VALUE", "a", "x1_y2"
Examples ==
    { <<"m","y","V","a","r","i","a","b","l","e","N","a","m","e">>,
      <<"M","Y","_","C","O","N","S","T","_","V","A","L","U","E">>,
      <<"a">>,
      <<"x","1","_","y","2">> }

Texts == {Join(q) : q \in SeqsUpTo(Pieces, MaxPieces)} \cup Examples

\* a text is chosen
TokInit ==
    /\ CustomIndexInit
    /\ ReloadIdle
    /\ calls = <<>>
    /\ last = NoCall
    /\ builder = "tokenizer"
    /\ pc = "done"
    /\ all_docs = <<>>
    /\ len_repo_cache_dir = 0
    /\ ticket_progress = NoProgress
    /\ all_tokens = <<>>
    /\ i = 0
    /\ ret = Running
    /\ fault = NoFault
    /\ source_text \in Texts
    /\ yielded = <<>>
    /\ tok_pc = "start"

\* tokenize_call(source_text) returns
TokenizeCall ==
    /\ tok_pc = "start"
    /\ yielded' = tokenize_call(source_text)
    /\ tok_pc' = "tokenize_call"
    /\ UNCHANGED <<index_vars, calls, last, builder_vars, source_text,
                   reload_vars>>

\* list(CodeTokenizer()(source_text)) returns
CodeTokenizerCall ==
    /\ tok_pc = "start"
    /\ yielded' = CodeTokenizer(source_text)
    /\ tok_pc' = "CodeTokenizer"
    /\ UNCHANGED <<index_vars, calls, last, builder_vars, source_text,
                   reload_vars>>

TokNext == TokenizeCall \/ CodeTokenizerCall

SpecTokenize == TokInit /\ [][TokNext]_vars

----------------------------------------------------------------------------
(* The callers *)

\* the index is made by the caller and driven directly
Init ==
    /\ CustomIndexInit
    /\ TokenizerIdle
    /\ ReloadIdle
    /\ calls = <<>>
    /\ last = NoCall
    /\ builder = "direct"
    /\ pc = "done"
    /\ all_docs = <<>>
    /\ len_repo_cache_dir = 0
    /\ ticket_progress = NoProgress
    /\ all_tokens = <<>>
    /\ i = 0
    /\ ret = Returned("index")
    /\ fault = NoFault

\* the caller adds one document
AddDocument ==
    /\ UNCHANGED <<tokenizer_vars, reload_vars>>
    /\ \E title \in Titles, content \in Contents, meta \in Metas :
        /\ builder = "direct"
        /\ last.kind # "pending"
        /\ Len(calls) < MaxCalls
        /\ add_document(title, compute_document_tokens(content), meta)
        /\ last' = [NoCall EXCEPT !.op = "add_document"]
        /\ UNCHANGED builder_vars

\* the caller calls search_index(query, index) on what the builder returned;
\* sig is the signal that will be delivered while the call runs
SearchCall ==
    /\ UNCHANGED <<tokenizer_vars, reload_vars>>
    /\ \E query \in Queries, sig \in Signals :
        /\ pc = "done" /\ ret.kind \in {"None", "index"}
        /\ last.kind # "pending"
        /\ last' = Pending(query, ret.kind = "None", sig)
        /\ UNCHANGED <<index_vars, calls, builder_vars>>

\* search_index runs and returns or raises
SearchReturn ==
    /\ UNCHANGED <<tokenizer_vars, reload_vars>>
    /\ last.kind = "pending"
    /\ last' = search_index(last.query, last.index_none, last.raised)
    /\ UNCHANGED <<index_vars, calls, builder_vars>>

Next == AddDocument \/ SearchCall \/ SearchReturn

Spec == Init /\ [][Next]_vars

\* the index populated by add_document calls only
IndexNext == AddDocument

SpecIndex == Init /\ [][IndexNext]_vars

BuildNext ==
    \/ SnippetsStart
    \/ SnippetsTokenize
    \/ SnippetsIndex
    \/ DocsStart
    \/ DocsAdd
    \/ SearchCall
    \/ SearchReturn

SpecBuild == BuildInit /\ [][BuildNext]_vars

----------------------------------------------------------------------------
(* One corpus loaded twice: a caller fills an index, searches it, fills a *)
(* new index with the same documents and searches again                   *)

\* the sets of documents <<title, content>> with pairwise distinct titles
Corpora ==
    {c \in SUBSET (Titles \X Contents) :
        /\ c # {}
        /\ Cardinality(c) <= MaxCalls
        /\ \A x, y \in c : x[1] = y[1] => x = y}

\* the postings of every term, as sets
PostingSets ==
    [t \in DOMAIN inverted_index |->
        {inverted_index[t][n] : n \in DOMAIN inverted_index[t]}]

\* the titles in the order of the add_document calls
LoadOrder == [k \in DOMAIN calls |-> calls[k][1]]

\* a corpus is chosen and the first index is made
ReloadInit ==
    /\ CustomIndexInit
    /\ TokenizerIdle
    /\ calls = <<>>
    /\ last = NoCall
    /\ builder = "reload"
    /\ pc = "first"
    /\ all_docs = <<>>
    /\ len_repo_cache_dir = 0
    /\ ticket_progress = NoProgress
    /\ all_tokens = <<>>
    /\ i = 0
    /\ ret = Returned("index")
    /\ fault = NoFault
    /\ corpus \in Corpora
    /\ first_load = NoLoad

\* the caller adds a document of the corpus that the index does not hold yet
LoadDocument ==
    /\ builder = "reload" /\ pc \in {"first", "second"}
    /\ \E doc \in corpus :
          /\ \A k \in DOMAIN calls : calls[k][1] # doc[1]
          /\ add_document(doc[1], compute_document_tokens(doc[2]),
                          DefaultMetadata)
    /\ last' = [NoCall EXCEPT !.op = "add_document"]
    /\ UNCHANGED <<builder_vars, tokenizer_vars, reload_vars>>

\* the corpus is loaded: search_index(query, index), with any query on the
\* first index and the same query on the second
LoadedSearch ==
    /\ builder = "reload" /\ pc \in {"first", "second"}
    /\ Len(calls) = Cardinality(corpus)
    /\ last.op # "search_index"
    /\ \E query \in Queries :
          /\ pc = "second" => query = first_load.query
          /\ last' = search_index(query, FALSE, "none")
    /\ UNCHANGED <<index_vars, calls, builder_vars, tokenizer_vars,
                   reload_vars>>

\* the caller keeps what the first index gave and makes the second index
StartSecondLoad ==
    /\ builder = "reload" /\ pc = "first"
    /\ last.op = "search_index"
    /\ first_load' =
          [done |-> TRUE, order |-> LoadOrder, doc_lengths |-> doc_lengths,
           avg_doc_length |-> avg_doc_length, postings |-> PostingSets,
           query |-> last.query, kind |-> last.kind, value |-> last.value]
    /\ inverted_index' = EmptyMap
    /\ doc_lengths' = EmptyMap
    /\ avg_doc_length' = <<0, 1>>
    /\ metadata' = EmptyMap
    /\ calls' = <<>>
    /\ last' = NoCall
    /\ pc' = "second"
    /\ UNCHANGED <<builder, all_docs, len_repo_cache_dir, ticket_progress,
                   all_tokens, i, ret, fault, tokenizer_vars, corpus>>

ReloadNext == LoadDocument \/ LoadedSearch \/ StartSecondLoad

SpecReload == ReloadInit /\ [][ReloadNext]_vars

----------------------------------------------------------------------------
(* Properties *)

\* a call of search_index has returned or raised
SearchDone == last.op = "search_index" /\ last.kind # "pending"

\* the add_document calls made so far have pairwise distinct titles
DistinctTitles ==
    \A m, n \in DOMAIN calls : m # n => calls[m][1] # calls[n][1]

C2_EmptyCorpus ==
    /\ (builder \in {"snippets", "docs"} /\ pc = "done" /\ all_docs = <<>>) =>
          ret = Returned("None")
    /\ (SearchDone /\ last.index_none) =>
          last.kind = "return" /\ DOMAIN last.value = {}

\* prepare_index_from_snippets got no snippet and the search on its result
\* has returned
C2_Witness ==
    /\ builder = "snippets" /\ all_docs = <<>> /\ pc = "done"
    /\ SearchDone /\ last.index_none /\ last.query # <<>>

Matching(query_tokens) ==
    UNION {{inverted_index[t][n][1] : n \in DOMAIN inverted_index[t]} :
              t \in {x \in DOMAIN inverted_index :
                        \E m \in DOMAIN query_tokens : query_tokens[m] = x}}

\* the sum of bm25 over the postings of document d met by the query tokens,
\* P the set of <<position in the query, position in the posting list>>
RECURSIVE SumBm25(_, _, _)
SumBm25(d, query_tokens, P) ==
    IF P = {} THEN 0
    ELSE LET p == CHOOSE x \in P : TRUE
         IN  bm25(d, query_tokens[p[1]],
                  inverted_index[query_tokens[p[1]]][p[2]][2]).val
             + SumBm25(d, query_tokens, P \ {p})

SummedScore(d, query_tokens) ==
    SumBm25(d, query_tokens,
            {p \in (DOMAIN query_tokens) \X (1 .. Len(calls)) :
                /\ query_tokens[p[1]] \in DOMAIN inverted_index
                /\ p[2] <= Len(inverted_index[query_tokens[p[1]]])
                /\ inverted_index[query_tokens[p[1]]][p[2]][1] = d})

\* C4: CustomIndex.search_index returns one triple for each document found
\* in the posting list of a token of the expanded query and for no other,
\* never the same document twice, each with its summed score and its
\* metadata, ordered by non-increasing score.
C4_SearchIndexResults ==
    (SearchDone /\ last.raw_ok) =>
        Bind(query_tokens_of(last.query),
             LAMBDA toks :
                /\ {last.raw[m][1] : m \in DOMAIN last.raw} = Matching(toks)
                /\ \A m, n \in DOMAIN last.raw :
                      m # n => last.raw[m][1] # last.raw[n][1]
                /\ \A m \in DOMAIN last.raw :
                      /\ m < Len(last.raw) =>
                            last.raw[m][2] >= last.raw[m + 1][2]
                      /\ last.raw[m][2] = SummedScore(last.raw[m][1], toks)
                      /\ last.raw[m][3] = MetadataGet(last.raw[m][1]))

\* a query with a trigram that finds two documents with different scores,
\* one of them twice in a posting list
C4_Witness ==
    /\ SearchDone /\ last.raw_ok
    /\ Len(last.raw) = 2
    /\ last.raw[1][2] > last.raw[2][2]
    /\ Len(query_tokens_of(last.query)) = 6
    /\ \E t \in DOMAIN inverted_index :
          /\ Len(inverted_index[t]) = 2
          /\ inverted_index[t][1][1] = inverted_index[t][2][1]

\* C5: prepare_index_from_snippets adds no document before every document
\* of the input has been tokenized, and then adds them in input order.
C5_TwoPasses ==
    (builder = "snippets" /\ calls # <<>>) =>
        /\ Len(all_tokens) = Len(all_docs)
        /\ fault.where # "tokenize"
        /\ Len(calls) <= Len(all_docs)
        /\ \A m \in DOMAIN calls :
              /\ calls[m][1] = DocTitle(all_docs[m])
              /\ calls[m][2] = all_tokens[m]
              /\ calls[m][2] = compute_document_tokens(all_docs[m].content)

\* the second pass has added the first of two documents
C5_Witness ==
    /\ builder = "snippets" /\ pc = "index"
    /\ Len(all_docs) = 2 /\ Len(calls) = 1

\* C6: when tokenizing document k raises FileNotFoundError,
\* prepare_index_from_snippets returns an index that holds documents
\* 0 .. k-1.
C6_PartialIndex ==
    (builder = "snippets" /\ pc = "done" /\ fault.where = "tokenize"
        /\ fault.exc = "FileNotFoundError") =>
        /\ ret = Returned("index")
        /\ Len(calls) = fault.at
        /\ \A m \in 1 .. fault.at : DocTitle(all_docs[m]) \in DOMAIN doc_lengths

\* C7: when ticket_progress.save() raises at a report point,
\* prepare_index_from_snippets still returns an index that holds every
\* document of the input.
C7_ProgressNeverAborts ==
    (builder = "snippets" /\ pc = "done"
        /\ fault.where \in {"save_total", "save_progress"}) =>
        /\ ret = Returned("index")
        /\ Len(calls) = Len(all_docs)
        /\ \A m \in DOMAIN all_docs : DocTitle(all_docs[m]) \in DOMAIN doc_lengths

\* C8: after every add_document call avg_doc_length is the sum of the
\* values of doc_lengths divided by the number of its keys.
C8_AvgDocLength ==
    calls # <<>> =>
        avg_doc_length[1] * Cardinality(DOMAIN doc_lengths)
            = avg_doc_length[2]
                * Cardinality(UNION {{<<d, n>> : n \in 1 .. doc_lengths[d]} :
                                        d \in DOMAIN doc_lengths})

\* three calls, one of them re-adding a title, and an average that is no
\* integer
C8_Witness ==
    /\ Len(calls) = 3
    /\ Cardinality(DOMAIN doc_lengths) = 2
    /\ avg_doc_length[2] = 2

\* the position in calls of the call that added document d
CallOf(d) == CHOOSE m \in DOMAIN calls : calls[m][1] = d

\* C9: after add_document calls with pairwise distinct titles, the posting
\* list of token t holds exactly one pair (d, f) when t occurs f >= 1 times
\* in the tokens of d and none otherwise; the frequencies of the postings of
\* d sum to doc_lengths[d]; every document of a posting list is a key of
\* doc_lengths and of metadata; every posting list is in insertion order.
C9_IndexConsistency ==
    DistinctTitles =>
        /\ \A m \in DOMAIN calls :
              /\ \A t \in DOMAIN inverted_index
                            \cup {calls[m][2][n] : n \in DOMAIN calls[m][2]} :
                    LET f  == Cardinality({n \in DOMAIN calls[m][2] :
                                              calls[m][2][n] = t})
                        at == {n \in DOMAIN PostingList(t) :
                                  PostingList(t)[n][1] = calls[m][1]}
                    IN  /\ f = 0 => at = {}
                        /\ f >= 1 =>
                              /\ Cardinality(at) = 1
                              /\ \A n \in at : PostingList(t)[n][2] = f
              /\ calls[m][1] \in DOMAIN doc_lengths
              /\ doc_lengths[calls[m][1]]
                    = Cardinality(
                         UNION {{<<t, n, c>> : c \in 1 .. inverted_index[t][n][2]} :
                                   <<t, n>> \in
                                       {x \in (DOMAIN inverted_index)
                                                 \X (1 .. Len(calls)) :
                                           /\ x[2] <= Len(inverted_index[x[1]])
                                           /\ inverted_index[x[1]][x[2]][1]
                                                 = calls[m][1]}})
        /\ \A t \in DOMAIN inverted_index :
              \A n \in DOMAIN inverted_index[t] :
                 /\ inverted_index[t][n][1] \in DOMAIN doc_lengths
                 /\ inverted_index[t][n][1] \in DOMAIN metadata
                 /\ \E m \in DOMAIN calls : calls[m][1] = inverted_index[t][n][1]
                 /\ n > 1 => CallOf(inverted_index[t][n - 1][1])
                                < CallOf(inverted_index[t][n][1])

\* three documents with distinct titles, a token with frequency 2 in one of
\* them and a posting list of three documents
C9_Witness ==
    /\ DistinctTitles /\ Len(calls) = 3
    /\ \E t \in DOMAIN inverted_index :
          /\ Len(inverted_index[t]) = 3
          /\ \E n \in 1 .. 3 : inverted_index[t][n][2] = 2

\* the argument of the logarithm of idf is at least 1 for every term with a
\* posting list, and no posting list is longer than the document count
IdfNonNegative ==
    \A t \in DOMAIN inverted_index :
        /\ FLeq(<<1, 1>>, IdfArg(Cardinality(DOMAIN doc_lengths),
                                 Len(inverted_index[t])))
        /\ Len(inverted_index[t]) <= Cardinality(DOMAIN doc_lengths)

\* C10 as stated: in every index state reached by add_document calls the idf
\* factor of bm25 is never negative.
C10_IdfNonNegativeAlways == IdfNonNegative

\* C10, amended: in every index state reached by add_document calls with
\* pairwise distinct titles the idf factor of bm25 is never negative.
C10_IdfNonNegativeDistinct == DistinctTitles => IdfNonNegative

\* three documents with distinct titles and a term that all of them hold
C10_Witness ==
    /\ DistinctTitles
    /\ Cardinality(DOMAIN doc_lengths) = 3
    /\ \E t \in DOMAIN inverted_index : Len(inverted_index[t]) = 3

\* the texts of a list of tokens
TextsOf(toks) == [k \in DOMAIN toks |-> toks[k].text]

\* C12: for the unigrams t[1..n] of a text, CodeTokenizer yields the n
\* unigrams, then n-1 bigrams (none when n < 2), the k-th with text
\* t[k].text + "_" + t[k+1].text, pos and startchar of t[k] and endchar of
\* t[k+1], then n-2 trigrams (none when n < 3) built the same way from t[k],
\* t[k+1], t[k+2]; the bigrams and trigrams are what construct_bigrams and
\* construct_trigrams return, and the token texts of a document and of a
\* query are the texts of that sequence.
C12_NGrams ==
    tok_pc = "CodeTokenizer" =>
        Bind(tokenize_call(source_text),
             LAMBDA t :
                LET n  == Len(t)
                    nb == IF n < 2 THEN 0 ELSE n - 1
                    nt == IF n < 3 THEN 0 ELSE n - 2
                    us == <<"_">>
                IN  /\ Len(yielded) = n + nb + nt
                    /\ \A k \in 1 .. n : yielded[k] = t[k]
                    /\ \A k \in 1 .. nb :
                          /\ yielded[n + k].text
                                = t[k].text \o us \o t[k + 1].text
                          /\ yielded[n + k].pos = t[k].pos
                          /\ yielded[n + k].startchar = t[k].startchar
                          /\ yielded[n + k].endchar = t[k + 1].endchar
                    /\ \A k \in 1 .. nt :
                          /\ yielded[n + nb + k].text
                                = t[k].text \o us \o t[k + 1].text
                                    \o us \o t[k + 2].text
                          /\ yielded[n + nb + k].pos = t[k].pos
                          /\ yielded[n + nb + k].startchar = t[k].startchar
                          /\ yielded[n + nb + k].endchar = t[k + 2].endchar
                    /\ construct_bigrams(t) = SubSeq(yielded, n + 1, n + nb)
                    /\ construct_trigrams(t)
                          = SubSeq(yielded, n + nb + 1, n + nb + nt)
                    /\ compute_document_tokens(source_text) = TextsOf(yielded)
                    /\ query_tokens_of(source_text) = TextsOf(yielded))

\* four unigrams, three bigrams and two trigrams
C12_Witness ==
    /\ tok_pc = "CodeTokenizer"
    /\ Len(yielded) = 9
    /\ Len(yielded[9].text) = 8
    /\ yielded[9].pos = 1 /\ yielded[5].pos = 0

\* the lower-cased parts of length > 1, in order
KeptParts(parts) ==
    LET kept == SelectSeq(parts, LAMBDA part : Len(part) > 1)
    IN  [k \in DOMAIN kept |-> Lower(kept[k])]

HasUnderscore(text) == \E k \in DOMAIN text : text[k] = "_"

\* the parts of a word run by two rules: the underscore-separated parts when
\* the run has an underscore, the matches of the case pattern otherwise
PartsByTwoRules(text) ==
    IF HasUnderscore(text) THEN SplitUnderscore(text, 0, 0)
    ELSE VariableFindAll(text, 0)

\* the parts of a word run by three rules: as above, and the whole run when
\* it has no underscore and the case pattern matches nowhere in it
PartsByThreeRules(text) ==
    IF HasUnderscore(text) THEN SplitUnderscore(text, 0, 0)
    ELSE IF VariableFindAll(text, 0) # <<>> THEN VariableFindAll(text, 0)
    ELSE <<text>>

\* the examples: "myVariableName" gives my, variable, name; "MY_CONST_VALUE"
\* gives my, const, value; "a" gives nothing; "x1_y2" gives x1, y2
ExamplesSplit ==
    /\ source_text = <<"m","y","V","a","r","i","a","b","l","e","N","a","m","e">>
          => TextsOf(yielded) = << <<"m","y">>,
                                   <<"v","a","r","i","a","b","l","e">>,
                                   <<"n","a","m","e">> >>
    /\ source_text = <<"M","Y","_","C","O","N","S","T","_","V","A","L","U","E">>
          => TextsOf(yielded) = << <<"m","y">>, <<"c","o","n","s","t">>,
                                   <<"v","a","l","u","e">> >>
    /\ source_text = <<"a">> => yielded = <<>>
    /\ source_text = <<"x","1","_","y","2">>
          => TextsOf(yielded) = << <<"x","1">>, <<"y","2">> >>

\* C13 as stated: the tokens of tokenize_call are, run by run, the
\* lower-cased underscore-separated parts of length > 1 when the run has an
\* underscore, and otherwise the lower-cased matches of the case pattern of
\* length > 1.
C13_SplitTwoRules ==
    tok_pc = "tokenize_call" =>
        /\ TextsOf(yielded)
              = Bind(WordMatches(source_text, 0),
                     LAMBDA runs :
                        Join([k \in DOMAIN runs |->
                                 KeptParts(PartsByTwoRules(runs[k].text))]))
        /\ ExamplesSplit

\* C13, amended: as above, and a run without underscore in which the case
\* pattern matches nowhere (digits, or capitals before a digit) gives the
\* whole lower-cased run when its length is > 1.
C13_SplitThreeRules ==
    tok_pc = "tokenize_call" =>
        /\ TextsOf(yielded)
              = Bind(WordMatches(source_text, 0),
                     LAMBDA runs :
                        Join([k \in DOMAIN runs |->
                                 KeptParts(PartsByThreeRules(runs[k].text))]))
        /\ ExamplesSplit

\* "E1 ab": a run the case pattern does not match and a run it matches
C13_Witness ==
    /\ tok_pc = "tokenize_call"
    /\ source_text = <<"E", "1", " ", "a", "b">>
    /\ TextsOf(yielded) = << <<"e", "1">>, <<"a", "b">> >>

\* the texts of toks from the k-th on occur in text, lower-cased, one after
\* the other and without overlap, at or after 0-based from
RECURSIVE Embeds(_, _, _, _)
Embeds(text, toks, k, from) ==
    \/ k > Len(toks)
    \/ \E at \in from .. Len(text) - Len(toks[k].text) :
          /\ Lower(Slice(text, at, at + Len(toks[k].text))) = toks[k].text
          /\ Embeds(text, toks, k + 1, at + Len(toks[k].text))

\* C14: every token of tokenize_call has a lower-cased text of length at
\* least 2, the tokens are in the left-to-right order of their occurrences
\* in the text, and their pos values are 0, 1, 2, ... with end_pos = pos + 1:
\* a part dropped by the length filter takes no pos.
C14_WellFormed ==
    tok_pc = "tokenize_call" =>
        /\ \A k \in DOMAIN yielded :
              /\ Len(yielded[k].text) >= 2
              /\ \A n \in DOMAIN yielded[k].text :
                    yielded[k].text[n] \notin UpperChars
              /\ yielded[k].pos = k - 1
              /\ yielded[k].end_pos = k
        /\ Embeds(source_text, yielded, 1, 0)

\* "abECd": the part "E" between "ab" and "Cd" is dropped and takes no pos
C14_Witness ==
    /\ tok_pc = "tokenize_call"
    /\ source_text = <<"a", "b", "E", "C", "d">>
    /\ Len(yielded) = 2
    /\ yielded[2].text = <<"c", "d">> /\ yielded[2].pos = 1

\* C15: for every token of tokenize_call, lower-casing
\* text[startchar:endchar] of the source text gives the text of the token.
C15_TrueOffsets ==
    tok_pc = "tokenize_call" =>
        \A k \in DOMAIN yielded :
            /\ 0 <= yielded[k].startchar
            /\ yielded[k].startchar <= yielded[k].endchar
            /\ yielded[k].endchar <= Len(source_text)
            /\ Lower(Slice(source_text, yielded[k].startchar,
                           yielded[k].endchar)) = yielded[k].text

\* the largest term frequency given to bm25
MaxTermFreq == 16

C16_OrderIndependent ==
    (builder = "reload" /\ pc = "second"
        /\ Len(calls) = Cardinality(corpus)) =>
        /\ doc_lengths = first_load.doc_lengths
        /\ avg_doc_length = first_load.avg_doc_length
        /\ PostingSets = first_load.postings
        /\ last.op = "search_index" =>
              /\ last.query = first_load.query
              /\ last.kind = first_load.kind
              /\ last.value = first_load.value

\* three documents loaded in two different orders, and a search that gives
\* two of them different scores
C16_Witness ==
    /\ builder = "reload" /\ pc = "second"
    /\ Cardinality(corpus) = 3 /\ Len(calls) = 3
    /\ LoadOrder # first_load.order
    /\ last.op = "search_index" /\ last.kind = "return"
    /\ \E d, e \in DOMAIN last.value :
          /\ last.value[d] = <<1, 1>>
          /\ last.value[e] # <<1, 1>>
    /\ \E t \in DOMAIN inverted_index :
          /\ Len(inverted_index[t]) = 2
          /\ \A n \in 1 .. 2 : first_load.order[n] # inverted_index[t][n][1]

====
